---- MODULE Spec2Model ----
(***************************************************************************)
(* The share-chain store (Sharechain) and the peer coordinator (Peer) of   *)
(* the p2pool node, as state machines.                                     *)
(*                                                                         *)
(* A share is the record [hash, absheight, previousShareHash, validity];   *)
(* the fields info.absheight and info.data.previousShareHash of BaseShare  *)
(* are flattened.  A hash identifies a share: the share universe is a      *)
(* fixed table, two valid shares (branch 1 and 2) and one invalid share    *)
(* (branch 3) at every height.                                             *)
(***************************************************************************)
EXTENDS Integers, Sequences, FiniteSets, TLC

\* Sharechain.BASE_CHAIN_LENGTH is 24*60*60/10 = 8640 in the source; the
\* model scales it down so that the window is crossed within MaxHeight.
BASE_CHAIN_LENGTH == 1

MAX_CHAIN_LENGTH == BASE_CHAIN_LENGTH * 2

\* Shares have heights 0..MaxHeight.
MaxHeight == 3

Heights == 0..MaxHeight

Branches == 1..3

HashOf(h, b) == h * 3 + b

\* The branch of the parent: branch 1 is a chain of its own; branch 2 runs
\* parallel to it (odd heights of h % 3 = 1), forks off it (h % 3 = 2) or
\* names a parent that is never stored (h % 3 = 0, the invalid share).
PrevBranch(h, b) ==
    IF b = 2 THEN (IF h % 3 = 1 THEN 2 ELSE IF h % 3 = 2 THEN 1 ELSE 3) ELSE 1

ShareAt(h, b) ==
    [hash |-> HashOf(h, b),
     absheight |-> h,
     previousShareHash |-> IF h = 0 THEN 0 ELSE HashOf(h - 1, PrevBranch(h, b)),
     validity |-> (b # 3)]

Shares == {ShareAt(h, b) : h \in Heights, b \in Branches}

\* null / undefined for a share-valued field
Null == [hash |-> 0, absheight |-> 0, previousShareHash |-> 0, validity |-> FALSE]

hasValue(x) == x # Null

\* Map.set, Map.delete and Map.get on a map kept as a function
MapSet(m, k, v) == [x \in (DOMAIN m) \cup {k} |-> IF x = k THEN v ELSE m[x]]

MapDelete(m, k) == [x \in (DOMAIN m) \ {k} |-> m[x]]

EmptyMap == [x \in {} |-> 0]

\* events are triggered synchronously; the model keeps the sequence of the
\* events one call has triggered.
Event(name, shares, gaps) == [name |-> name, shares |-> shares, gaps |-> gaps]

Gap(descendent, descendentHeight, length) ==
    [descendent |-> descendent, descendentHeight |-> descendentHeight, length |-> length]

\* the result of one call on the store: the store after it, the value
\* returned and the events triggered, in order
Outcome(c, ret, events) == [chain |-> c, ret |-> ret, events |-> events]

VARIABLES hashIndexer, absheightIndexer, newest, oldest, calculatable, verified,
          call, ret, events,
          peers, isJs2PoolPeer, pendingShareRequests, unanswered, server,
          knownTxs, knownTxsCaches, miningTxs, rememberedTxs, remoteTxHashs,
          sent, haveTxSent, versionHandling,
          socket, reader, incoming, written, dispatched, emitted, ends

vars == <<hashIndexer, absheightIndexer, newest, oldest, calculatable, verified,
          call, ret, events,
          peers, isJs2PoolPeer, pendingShareRequests, unanswered, server,
          knownTxs, knownTxsCaches, miningTxs, rememberedTxs, remoteTxHashs,
          sent, haveTxSent, versionHandling,
          socket, reader, incoming, written, dispatched, emitted, ends>>

\* one connection seen from its Node object: the socket, the read loop, the
\* bytes and frames of the remote side, and what the Node has dispatched and
\* emitted
linkVars == <<socket, reader, incoming, written, dispatched, emitted, ends>>

\* the transaction views of the coordinator and of its nodes
txVars == <<knownTxs, knownTxsCaches, miningTxs, rememberedTxs, remoteTxHashs,
            sent, haveTxSent>>

chainVars == <<hashIndexer, absheightIndexer, newest, oldest, calculatable, verified>>

\* the fields of the Sharechain singleton
Chain ==
    [hashIndexer |-> hashIndexer, absheightIndexer |-> absheightIndexer,
     newest |-> newest, oldest |-> oldest,
     calculatable |-> calculatable, verified |-> verified]

EmptyChain ==
    [hashIndexer |-> EmptyMap, absheightIndexer |-> EmptyMap,
     newest |-> Null, oldest |-> Null,
     calculatable |-> FALSE, verified |-> FALSE]

cleanDeprecationsKeepsHashes(c) ==
    IF ~hasValue(c.newest) \/ ~hasValue(c.oldest) THEN c
    ELSE IF c.newest.absheight - c.oldest.absheight < MAX_CHAIN_LENGTH THEN c
    ELSE IF c.oldest.absheight \notin DOMAIN c.absheightIndexer THEN c
    ELSE [c EXCEPT !.absheightIndexer = MapDelete(@, c.oldest.absheight)]

cleanDeprecations(c) ==
    IF ~hasValue(c.newest) \/ ~hasValue(c.oldest) THEN c
    ELSE IF c.newest.absheight - c.oldest.absheight < MAX_CHAIN_LENGTH THEN c
    ELSE IF c.oldest.absheight \notin DOMAIN c.absheightIndexer THEN c
    ELSE LET deprecatedShares == c.absheightIndexer[c.oldest.absheight]
             gone == {deprecatedShares[i].hash : i \in 1..Len(deprecatedShares)}
         IN  IF Len(deprecatedShares) = 0 THEN c
             ELSE [c EXCEPT
                     !.absheightIndexer = MapDelete(@, c.oldest.absheight),
                     !.hashIndexer = [x \in (DOMAIN @) \ gone |-> @[x]]]

\* [verified].concat(orphans) and [share].concat(orphans): the list rewritten
\* with the main-chain share first
reorderLosesOrphans(main, orphans) == <<main>>

reorder(main, orphans) == <<main>> \o orphans

\* the branch of a share above newest that reports a gap only for a missing
\* height
appendNewTipSilent(c, share) ==
    LET h == share.absheight
        c5 == cleanDeprecations([c EXCEPT !.newest = share])
        changed == <<Event("NewestChanged", <<share>>, <<>>)>>
    IN  IF (h - 1) \notin DOMAIN c5.absheightIndexer
        THEN Outcome(c5, "true",
                     changed \o <<Event("GapsFound", <<>>, <<Gap(share.hash, h, 1)>>)>>)
        ELSE Outcome(c5, "true", changed)

\* append, the branch of a share above newest (lines 146-175)
appendNewTip(c, share) ==
    LET h == share.absheight
        c4 == [c EXCEPT !.newest = share]
        c5 == cleanDeprecations(c4)
        changed == <<Event("NewestChanged", <<share>>, <<>>)>>
        gap == <<Event("GapsFound", <<>>, <<Gap(share.hash, h, 1)>>)>>
    IN  IF (h - 1) \notin DOMAIN c5.absheightIndexer
        THEN Outcome(c5, "true", changed \o gap)
        ELSE LET previousShares == c5.absheightIndexer[h - 1]
                 found == SelectSeq(previousShares,
                                    LAMBDA s : s.hash = share.previousShareHash)
             IN  IF Len(previousShares) < 2 THEN Outcome(c5, "true", changed)
                 ELSE IF found # <<>>
                 THEN LET verifiedShare == found[1]
                          orphans == SelectSeq(previousShares,
                                               LAMBDA s : s.hash # verifiedShare.hash)
                      IN  Outcome(
                            [c5 EXCEPT !.absheightIndexer =
                                MapSet(@, h - 1, reorder(verifiedShare, orphans))],
                            "true",
                            changed \o (IF Len(orphans) > 0
                                        THEN <<Event("OrphansFound", orphans, <<>>)>>
                                        ELSE <<>>))
                 ELSE Outcome(c5, "true", changed \o gap)

\* append, the branch of a share below newest (lines 184-206); shares is the
\* list at the share's height, the share already pushed onto it
appendBelowNewest(c, share, shares) ==
    LET nextHeight == share.absheight + 1
    IN  IF Len(shares) < 2 THEN Outcome(c, "true", <<>>)
        ELSE IF nextHeight \notin DOMAIN c.absheightIndexer
                \/ Len(c.absheightIndexer[nextHeight]) = 0
        THEN Outcome(c, "undefined", <<>>)
        ELSE LET nextShares == c.absheightIndexer[nextHeight]
             IN  IF ~(\E i \in 1..Len(nextShares) :
                         nextShares[i].previousShareHash = share.hash)
                 THEN Outcome(c, "false", <<Event("DeadArrived", <<share>>, <<>>)>>)
                 ELSE LET orphans == SelectSeq(shares, LAMBDA s : s.hash # share.hash)
                      IN  Outcome(
                            [c EXCEPT !.absheightIndexer =
                                MapSet(@, share.absheight, reorder(share, orphans))],
                            "false",
                            IF Len(orphans) > 0
                            THEN <<Event("OrphansFound", orphans, <<>>)>>
                            ELSE <<>>)

\* the share stored without a look at newest, which only the first share sets
appendNewKeepsNewest(c, share, shares0) ==
    Outcome([c EXCEPT !.absheightIndexer =
                          MapSet(@, share.absheight, Append(shares0, share)),
                      !.hashIndexer = MapSet(@, share.hash, share.absheight),
                      !.newest = IF hasValue(@) THEN @ ELSE share,
                      !.oldest = IF hasValue(@) THEN @ ELSE share],
            "true", <<>>)

\* append from line 141 on: a valid share that is no duplicate; shares0 is
\* the list at its height before the push
appendNew(c, share, shares0) ==
    LET h == share.absheight
        shares == Append(shares0, share)
        c2 == [c EXCEPT !.absheightIndexer = MapSet(@, h, shares),
                        !.hashIndexer = MapSet(@, share.hash, h)]
        c3 == IF hasValue(c2.oldest) /\ h < c2.oldest.absheight
              THEN [c2 EXCEPT !.oldest = share] ELSE c2
    IN  IF hasValue(c3.newest) /\ h > c3.newest.absheight
        THEN appendNewTip(c3, share)
        ELSE IF hasValue(c3.newest) /\ h = c3.newest.absheight
        THEN Outcome(c3, "true", <<Event("CandidateArrived", <<share>>, <<>>)>>)
        ELSE IF hasValue(c3.newest) /\ h < c3.newest.absheight
        THEN appendBelowNewest(c3, share, shares)
        ELSE Outcome(
               [c3 EXCEPT !.newest = share,
                          !.oldest = IF hasValue(c3.oldest) THEN @ ELSE share],
               "true",
               <<Event("NewestChanged", <<share>>, <<>>)>>)

\* the list at the share's height, created empty when the height is new
\* (lines 131-135)
listAt(c, h) == IF h \in DOMAIN c.absheightIndexer THEN c.absheightIndexer[h] ELSE <<>>

appendValidKeepsDuplicates(c, share) ==
    appendNew([c EXCEPT !.absheightIndexer =
                  MapSet(@, share.absheight, listAt(c, share.absheight))],
              share, listAt(c, share.absheight))

\* append from line 131 on: a valid share
appendValid(c, share) ==
    LET h == share.absheight
        shares0 == listAt(c, h)
        c1 == [c EXCEPT !.absheightIndexer = MapSet(@, h, shares0)]
    IN  IF \E i \in 1..Len(shares0) : shares0[i].hash = share.hash
        THEN Outcome(c1, "false", <<>>)
        ELSE appendNew(c1, share, shares0)

appendIgnoresValidity(c, share) == appendValid(c, share)

append(c, share) ==
    IF ~share.validity THEN Outcome(c, "false", <<>>)
    ELSE appendValid(c, share)

\* add: append every share in turn; nothing is returned
RECURSIVE add(_, _)
add(c, shares) ==
    IF shares = <<>> THEN Outcome(c, "undefined", <<>>)
    ELSE LET first == append(c, Head(shares))
             rest == add(first.chain, Tail(shares))
         IN  Outcome(rest.chain, "undefined", first.events \o rest.events)

\* get length(): the heights below newest that are stored without a hole
RECURSIVE countDown(_, _)
countDown(c, height) ==
    IF height \in DOMAIN c.absheightIndexer THEN 1 + countDown(c, height - 1) ELSE 0

length(c) == IF ~hasValue(c.newest) THEN 0 ELSE countDown(c, c.newest.absheight)

\* the loop of verify (lines 265-275): the number of shares counted
RECURSIVE verifyWalk(_, _, _, _)
verifyWalk(c, hash, absheight, count) ==
    IF absheight \notin DOMAIN c.absheightIndexer THEN count
    ELSE LET shares == c.absheightIndexer[absheight]
         IN  IF Len(shares) = 0 THEN count
             ELSE IF hash # shares[1].hash THEN count
             ELSE verifyWalk(c, shares[1].previousShareHash,
                             shares[1].absheight - 1, count + 1)

verifiedCount(c) == verifyWalk(c, c.newest.hash, c.newest.absheight, 0)

\* verify with calculatable computed anew by every call
verifyUnlatched(c) ==
    IF ~hasValue(c.newest) THEN Outcome(c, "false", <<>>)
    ELSE LET count == verifiedCount(c)
             latch == count = length(c) /\ count >= BASE_CHAIN_LENGTH
             c1 == [c EXCEPT !.calculatable = latch]
             c2 == [c1 EXCEPT !.verified = (count = length(c1))]
         IN  Outcome(c2, IF c2.verified THEN "true" ELSE "false",
                     IF latch THEN <<Event("ChainCalculatable", <<>>, <<>>)>> ELSE <<>>)

verify(c) ==
    IF ~hasValue(c.newest) THEN Outcome(c, "false", <<>>)
    ELSE LET count == verifiedCount(c)
             latch == ~c.calculatable
                      /\ count = length(c) /\ count >= BASE_CHAIN_LENGTH
             c1 == [c EXCEPT !.calculatable = IF c.calculatable THEN TRUE ELSE latch]
             c2 == [c1 EXCEPT !.verified = (count = length(c1))]
         IN  Outcome(c2, IF c2.verified THEN "true" ELSE "false",
                     IF latch THEN <<Event("ChainCalculatable", <<>>, <<>>)>> ELSE <<>>)

\* the loop of subchain (lines 230-237)
RECURSIVE subchainWalk(_, _, _, _)
subchainWalk(c, absheight, len, step) ==
    IF len = 0 THEN <<>>
    ELSE IF absheight \notin DOMAIN c.absheightIndexer THEN <<>>
    ELSE LET shares == c.absheightIndexer[absheight]
         IN  IF Len(shares) = 0 THEN <<>>
             ELSE <<shares[1]>>
                  \o subchainWalk(c, shares[1].absheight + step, len - 1, step)

\* subchain: the shares the generator yields, in order. A start hash that is
\* not indexed, and one indexed at height 0, both fail the test !absheight.
subchain(c, startHash, len, direction) ==
    IF startHash \notin DOMAIN c.hashIndexer THEN <<>>
    ELSE IF c.hashIndexer[startHash] = 0 THEN <<>>
    ELSE subchainWalk(c, c.hashIndexer[startHash], len,
                      IF direction = "backward" THEN -1 ELSE 1)

\* Array.from(map).sort((a, b) => b[0] - a[0]): the keys in descending order
RECURSIVE sortDescending(_)
sortDescending(S) ==
    IF S = {} THEN <<>>
    ELSE LET m == CHOOSE x \in S : \A y \in S : y <= x
         IN  <<m>> \o sortDescending(S \ {m})

\* the loop of checkGaps (lines 294-303) over the ancestor heights left
RECURSIVE gapsWalk(_, _, _, _)
gapsWalk(c, ancestors, descendentHeight, ancestorHash) ==
    IF ancestors = <<>> THEN <<>>
    ELSE LET ancestorHeight == Head(ancestors)
             shares == c.absheightIndexer[ancestorHeight]
             linked == ancestorHeight + 1 = descendentHeight
                       /\ shares[1].hash = ancestorHash
             found == IF linked THEN <<>>
                      ELSE <<Gap(c.absheightIndexer[descendentHeight][1].hash,
                                 descendentHeight,
                                 descendentHeight - ancestorHeight)>>
         IN  found \o gapsWalk(c, Tail(ancestors), ancestorHeight,
                               shares[1].previousShareHash)

\* checkGaps without the terminal gap of lines 305-311
gapsOfWithoutTerminal(c) ==
    gapsWalk(c, Tail(sortDescending(DOMAIN c.absheightIndexer)),
             c.newest.absheight, c.newest.previousShareHash)

\* the gaps checkGaps collects (and returns)
gapsOf(c) ==
    gapsWalk(c, Tail(sortDescending(DOMAIN c.absheightIndexer)),
             c.newest.absheight, c.newest.previousShareHash)
    \o (IF hasValue(c.oldest) /\ hasValue(c.newest)
           /\ c.newest.absheight - c.oldest.absheight < BASE_CHAIN_LENGTH
        THEN <<Gap(c.oldest.hash, c.oldest.absheight,
                   BASE_CHAIN_LENGTH - (c.newest.absheight - c.oldest.absheight))>>
        ELSE <<>>)

checkGaps(c) ==
    IF ~hasValue(c.newest) THEN Outcome(c, "undefined", <<>>)
    ELSE LET gaps == gapsOf(c)
         IN  Outcome(c, "gaps",
                     IF Len(gaps) > 0 THEN <<Event("GapsFound", <<>>, gaps)>> ELSE <<>>)

(***************************************************************************)
(* The peer coordinator (Peer.ts) over the store.  peers is the map of     *)
(* registered nodes, by tag; unanswered[n] is the queue of sharereq         *)
(* messages written to the socket of node n that the remote side has not   *)
(* replied to yet, oldest first.                                           *)
(***************************************************************************)

MaxPeers == 2

MaxUnanswered == 2

Nodes == 1..MaxPeers

MaxTx == 2

\* the transaction hashes
Txs == 1..MaxTx

\* the template of a transaction: its hash and its bytes
TxTemplate(h) == [txid |-> h, hash |-> h, data |-> <<h>>]

\* the mapping of a set of transactions, keyed by txid || hash
MapOf(hashes) == [h \in hashes |-> TxTemplate(h)]

\* Utils.sha256(`${descendent}-${length}`).toString('hex'): one digest per
\* (descendent, length), written with all its digits; zeros is the number of
\* leading zero bytes of the digest
sha256Hex(descendent, len) ==
    [zeros |-> IF (descendent + len) % 11 = 0 THEN 1 ELSE 0,
     digits |-> <<descendent, len>>]

\* new Bignum(hex, 16): the number, which has no leading zeros
fromHex(hex) == hex.digits

\* Bignum toString(16): the digits of the number, without leading zero bytes
toHex(number) == [zeros |-> 0, digits |-> number]

Min(a, b) == IF a <= b THEN a ELSE b

\* the sharereq written to node n for a gap (lines 89-93)
Sharereq(gap, n) ==
    [id |-> fromHex(sha256Hex(gap.descendent, gap.length)),
     hashes |-> <<gap.descendent>>,
     parents |-> Min(gap.length, IF isJs2PoolPeer[n] THEN 250 ELSE 79)]

\* peers.take(8) (line 88)
take8(nodes) ==
    IF Cardinality(nodes) <= 8 THEN nodes
    ELSE CHOOSE S \in SUBSET nodes : Cardinality(S) = 8

\* the coordinator's side while the handlers of one step run
PeerSide ==
    [pending |-> pendingShareRequests, out |-> unanswered, server |-> server]

\* the body of the loop of handleGapsFound (lines 84-96)
requestGap(P, gap) ==
    LET requestId == sha256Hex(gap.descendent, gap.length)
    IN  IF requestId \in P.pending THEN P
        ELSE [pending |-> P.pending \cup {requestId},
              out |-> [n \in Nodes |->
                          IF n \in take8(peers)
                          THEN Append(P.out[n], Sharereq(gap, n))
                          ELSE P.out[n]],
              server |-> P.server]

RECURSIVE requestGaps(_, _)
requestGaps(P, gaps) ==
    IF gaps = <<>> THEN P
    ELSE requestGaps(requestGap(P, Head(gaps)), Tail(gaps))

\* MathEx.shuffle: every order of the list
RECURSIVE shuffle(_)
shuffle(s) ==
    IF Len(s) <= 1 THEN {s}
    ELSE UNION {{<<s[i]>> \o rest :
                    rest \in shuffle(SubSeq(s, 1, i - 1) \o SubSeq(s, i + 1, Len(s)))} :
                i \in 1..Len(s)}

\* the sides handleGapsFound can leave
handleGapsFound(P, gaps) ==
    IF peers = {} THEN {P}
    ELSE IF Len(gaps) = 0 THEN {P}
    ELSE {requestGaps(P, randomGaps) :
             randomGaps \in (IF Len(gaps) > 1 THEN shuffle(gaps) ELSE {gaps})}

handleChainCalculatable(P) ==
    IF P.server THEN P ELSE [P EXCEPT !.server = TRUE]

\* the handlers with the server started by the first share already
deliverStartsServerEarly(P, event) ==
    IF event.name = "GapsFound" THEN handleGapsFound(P, event.gaps)
    ELSE IF event.name \in {"ChainCalculatable", "NewestChanged"}
    THEN {handleChainCalculatable(P)}
    ELSE {P}

\* the handler the constructor registered for one event of the store
deliver(P, event) ==
    IF event.name = "GapsFound" THEN handleGapsFound(P, event.gaps)
    ELSE IF event.name = "ChainCalculatable" THEN {handleChainCalculatable(P)}
    ELSE {P}

RECURSIVE deliverAll(_, _)
deliverAll(Ps, evs) ==
    IF evs = <<>> THEN Ps
    ELSE deliverAll(UNION {deliver(P, Head(evs)) : P \in Ps}, Tail(evs))

\* sharechain.fix() of the store that Peer.ts imports
fix(c) == c

\* one call on the store, its outcome written back to the singleton
Apply(out) ==
    /\ hashIndexer' = out.chain.hashIndexer
    /\ absheightIndexer' = out.chain.absheightIndexer
    /\ newest' = out.chain.newest
    /\ oldest' = out.chain.oldest
    /\ calculatable' = out.chain.calculatable
    /\ verified' = out.chain.verified
    /\ ret' = out.ret
    /\ events' = out.events

\* the coordinator's side written back; a socket holds at most MaxUnanswered
\* requests
ApplyPeer(P) ==
    /\ \A n \in Nodes : Len(P.out[n]) <= MaxUnanswered
    /\ pendingShareRequests' = P.pending
    /\ unanswered' = P.out
    /\ server' = P.server

\* one call on the store with the handlers of its events
ApplyAll(out) ==
    /\ Apply(out)
    /\ \E P \in deliverAll({PeerSide}, out.events) : ApplyPeer(P)
    /\ UNCHANGED <<peers, isJs2PoolPeer, txVars, versionHandling, linkVars>>

Called(op, args) == [op |-> op, args |-> args]

\* add is called with a share followed by a share that names it as parent
AddInputs ==
    {p \in Shares \X Shares : p[2].previousShareHash = p[1].hash}

\* the shares that reach the coordinator: the valid shares of the first branch
PeerShares == {ShareAt(h, 1) : h \in Heights}

\* the share lists of a sharereply: no share, one share (an invalid one among
\* them), or a share followed by its parent
ReplyInputs ==
    LET wire == PeerShares \cup {ShareAt(0, 3)}
    IN  {<<>>} \cup {<<s>> : s \in wire}
            \cup {p \in wire \X wire : p[1].previousShareHash = p[2].hash}

\* the replies the remote side can give to a request
RepliesTo(request) ==
    {[id |-> request.id, result |-> 2, shares |-> <<>>]}
        \cup {[id |-> request.id, result |-> 0, shares |-> w] : w \in ReplyInputs}

\* the socket after initSocket: the timeout callback and the once-listeners
\* of 'end' and 'error' are attached
initSocket ==
    [listeners |-> {"timeout", "end", "error"}, ended |-> FALSE, readable |-> TRUE]

\* beginReceivingMessagesAsync has not been called
NotReading ==
    [stage |-> "none", buff |-> <<>>, command |-> "", length |-> 0, checksum |-> 0]

\* no version message of a node is being handled
NotHandling == [stage |-> 0, bestShareHash |-> 0]

Init ==
    /\ hashIndexer = EmptyMap
    /\ absheightIndexer = EmptyMap
    /\ newest = Null
    /\ oldest = Null
    /\ calculatable = FALSE
    /\ verified = FALSE
    /\ call = Called("new", <<>>)
    /\ ret = "undefined"
    /\ events = <<>>
    /\ peers = {}
    /\ isJs2PoolPeer = [n \in Nodes |-> FALSE]
    /\ pendingShareRequests = {}
    /\ unanswered = [n \in Nodes |-> <<>>]
    /\ server = FALSE
    /\ knownTxs = EmptyMap
    /\ knownTxsCaches = <<>>
    /\ miningTxs = EmptyMap
    /\ rememberedTxs = [n \in Nodes |-> EmptyMap]
    /\ remoteTxHashs = [n \in Nodes |-> <<>>]
    /\ sent = [n \in Nodes |-> <<>>]
    /\ haveTxSent = [n \in Nodes |-> {}]
    /\ versionHandling = [n \in Nodes |-> NotHandling]
    /\ socket = initSocket
    /\ reader = NotReading
    /\ incoming = <<>>
    /\ written = <<>>
    /\ dispatched = <<>>
    /\ emitted = <<>>
    /\ ends = 0

AppendOf(offered) ==
    \E share \in offered :
        /\ call' = Called("append", <<share>>)
        /\ ApplyAll(append(Chain, share))

DoAppend == AppendOf(Shares)

DoAppendPeer == AppendOf(PeerShares)

DoAdd ==
    \E shares \in AddInputs :
        /\ call' = Called("add", shares)
        /\ ApplyAll(add(Chain, shares))

DoVerify ==
    /\ call' = Called("verify", <<>>)
    /\ ApplyAll(verify(Chain))

DoCheckGaps ==
    /\ call' = Called("checkGaps", <<>>)
    /\ ApplyAll(checkGaps(Chain))

\* a node is connected and registered; its End handler is the action End
registerNode ==
    \E n \in Nodes \ peers :
        /\ peers' = peers \cup {n}
        /\ call' = Called("registerNode", <<>>)
        /\ ret' = "undefined"
        /\ events' = <<>>
        /\ UNCHANGED <<chainVars, isJs2PoolPeer, pendingShareRequests, unanswered, server>>
        /\ sent' = [m \in Nodes |-> <<>>]
        /\ UNCHANGED <<knownTxs, knownTxsCaches, miningTxs, rememberedTxs,
                       remoteTxHashs, haveTxSent, versionHandling, linkVars>>

\* the connection of a registered node ends: the handler of line 262, and the
\* requests on its socket are lost
Ended(n) ==
    /\ peers' = peers \ {n}
    /\ unanswered' = [unanswered EXCEPT ![n] = <<>>]
    /\ isJs2PoolPeer' = [isJs2PoolPeer EXCEPT ![n] = FALSE]
    /\ rememberedTxs' = [rememberedTxs EXCEPT ![n] = EmptyMap]
    /\ remoteTxHashs' = [remoteTxHashs EXCEPT ![n] = <<>>]
    /\ haveTxSent' = [haveTxSent EXCEPT ![n] = {}]
    /\ versionHandling' = [versionHandling EXCEPT ![n] = NotHandling]

End ==
    \E n \in peers :
        /\ Ended(n)
        /\ call' = Called("End", <<>>)
        /\ ret' = "undefined"
        /\ events' = <<>>
        /\ sent' = [m \in Nodes |-> <<>>]
        /\ UNCHANGED <<chainVars, pendingShareRequests, server>>
        /\ UNCHANGED <<knownTxs, knownTxsCaches, miningTxs, linkVars>>

\* the remote side of node n answers the oldest request on its socket, and
\* the coordinator handles the reply, the callback it defers to the next tick
\* included
handleSharereplyOf(n, reply) ==
    LET P0 == [PeerSide EXCEPT !.out[n] = Tail(@)]
    IN  /\ call' = Called("handleSharereply", <<>>)
        /\ UNCHANGED <<peers, isJs2PoolPeer, txVars, versionHandling, linkVars>>
        /\ IF reply.result # 0
           THEN LET out == checkGaps(Chain)
                IN  /\ Apply(Outcome(out.chain, "undefined", out.events))
                    /\ \E P \in deliverAll({P0}, out.events) : ApplyPeer(P)
           ELSE LET shares == SelectSeq(reply.shares,
                                  LAMBDA s : s.validity
                                             /\ s.hash \notin DOMAIN hashIndexer)
                    fixed == IF Len(shares) = 0 THEN fix(Chain) ELSE Chain
                    added == add(fixed, shares)
                    gapsOut == checkGaps(added.chain)
                    verOut == verify(gapsOut.chain)
                IN  /\ Apply(Outcome(verOut.chain, "undefined",
                                     added.events \o gapsOut.events
                                         \o verOut.events))
                    /\ \E P1 \in deliverAll({P0}, added.events) :
                           \E P2 \in deliverAll(
                                        {[P1 EXCEPT !.pending =
                                              @ \ {toHex(reply.id)}]},
                                        gapsOut.events \o verOut.events) :
                               ApplyPeer(P2)

handleSharereply ==
    \E n \in peers :
        /\ unanswered[n] # <<>>
        /\ \E reply \in RepliesTo(Head(unanswered[n])) : handleSharereplyOf(n, reply)

(***************************************************************************)
(* The transaction views of the coordinator.  sent[n] is the list of       *)
(* messages the last step wrote to the socket of node n; haveTxSent[n] is   *)
(* the set of hashes named by a have_tx written to n that no losing_tx has *)
(* taken back since.                                                       *)
(***************************************************************************)

KNOWN_TXS_CACHES == 2

Msg(command, hashes, txs, size, shares) ==
    [command |-> command, hashes |-> hashes, txs |-> txs, size |-> size,
     shares |-> shares]

\* the coordinator's transaction side while the handlers of one step run
TxSide ==
    [knownTxs |-> knownTxs, knownTxsCaches |-> knownTxsCaches,
     miningTxs |-> miningTxs, rememberedTxs |-> rememberedTxs,
     sent |-> [n \in Nodes |-> <<>>], haveTxSent |-> haveTxSent]

\* the remote view of node n after a message is written to its socket
told(view, msg) ==
    IF msg.command = "have_tx" THEN view \cup msg.hashes
    ELSE IF msg.command = "losing_tx" THEN view \ msg.hashes
    ELSE view

\* node.sendXXXAsync(msg) for every node of targets
broadcast(T, targets, msgOf(_)) ==
    [T EXCEPT !.sent = [n \in Nodes |->
                           IF n \in targets THEN Append(@[n], msgOf(n)) ELSE @[n]],
              !.haveTxSent = [n \in Nodes |->
                                 IF n \in targets THEN told(@[n], msgOf(n)) ELSE @[n]]]

\* the keys of one mapping that the other mapping does not have
except(first, second) == DOMAIN first \ DOMAIN second

\* the handler with every key of the new value announced
handleKnownTxsChangedAnnouncesAll(T, oldValue, newValue) ==
    LET added == DOMAIN newValue
        removed == except(oldValue, newValue)
        T1 == IF added # {}
              THEN broadcast(T, peers, LAMBDA n : Msg("have_tx", added, {}, 0, <<>>))
              ELSE T
        T2 == IF removed # {}
              THEN broadcast(T1, peers, LAMBDA n : Msg("losing_tx", removed, {}, 0, <<>>))
              ELSE T1
        pushed == Append(T2.knownTxsCaches, [h \in removed |-> oldValue[h]])
    IN  [T2 EXCEPT !.knownTxsCaches =
                       IF Len(pushed) > KNOWN_TXS_CACHES THEN Tail(pushed) ELSE pushed]

handleKnownTxsChanged(T, oldValue, newValue) ==
    LET added == except(newValue, oldValue)
        removed == except(oldValue, newValue)
        T1 == IF added # {}
              THEN broadcast(T, peers, LAMBDA n : Msg("have_tx", added, {}, 0, <<>>))
              ELSE T
        T2 == IF removed # {}
              THEN broadcast(T1, peers, LAMBDA n : Msg("losing_tx", removed, {}, 0, <<>>))
              ELSE T1
        pushed == Append(T2.knownTxsCaches, [h \in removed |-> oldValue[h]])
    IN  [T2 EXCEPT !.knownTxsCaches =
                       IF Len(pushed) > KNOWN_TXS_CACHES THEN Tail(pushed) ELSE pushed]

RECURSIVE sumOfBytes(_)
sumOfBytes(templates) ==
    IF templates = {} THEN 0
    ELSE LET tx == CHOOSE t \in templates : TRUE
         IN  Len(tx.data) + sumOfBytes(templates \ {tx})

handleMiningTxsChanged(T, oldValue, newValue) ==
    LET added == {newValue[h] : h \in except(newValue, oldValue)}
        removed == {oldValue[h] : h \in except(oldValue, newValue)}
        has(n, h) == \E i \in 1..Len(remoteTxHashs[n]) : remoteTxHashs[n][i] = h
        T1 == IF added # {}
              THEN broadcast(T, peers,
                       LAMBDA n : Msg("remember_tx",
                                      {tx.txid : tx \in {t \in added : has(n, t.txid)}},
                                      {t \in added : ~has(n, t.txid)}, 0, <<>>))
              ELSE T
    IN  IF removed # {}
        THEN broadcast(T1, peers,
                 LAMBDA n : Msg("forget_tx", {tx.txid : tx \in removed}, {},
                                sumOfBytes(removed), <<>>))
        ELSE T1

\* ObservableProperty.set of knownTxs and of miningTxs: the value is replaced
\* and the registered handler runs with the old and the new value
setKnownTxs(T, newValue) ==
    handleKnownTxsChanged([T EXCEPT !.knownTxs = newValue], T.knownTxs, newValue)

setMiningTxs(T, newValue) ==
    handleMiningTxsChanged([T EXCEPT !.miningTxs = newValue], T.miningTxs, newValue)

\* template is the set of transactions of the block template
updateMiningTemplate(T, template) ==
    LET mining == MapOf(template)
        known == [h \in DOMAIN T.knownTxs \cup template |->
                     IF h \in template THEN TxTemplate(h) ELSE T.knownTxs[h]]
    IN  setKnownTxs(setMiningTxs(T, mining), known)

\* removeDeprecatedTxs without the test of line 337
removeDeprecatedTxsDropsMining(T, txs) ==
    LET kept == {h \in DOMAIN T.knownTxs : h \notin txs}
        T1 == setKnownTxs(T, [h \in kept |-> T.knownTxs[h]])
    IN  [T1 EXCEPT !.rememberedTxs =
                       [n \in Nodes |->
                           IF n \in peers
                           THEN [h \in DOMAIN @[n] \ txs |-> @[n][h]]
                           ELSE @[n]]]

removeDeprecatedTxs(T, txs) ==
    LET kept == {h \in DOMAIN T.knownTxs : h \notin txs \/ h \in DOMAIN T.miningTxs}
        T1 == setKnownTxs(T, [h \in kept |-> T.knownTxs[h]])
    IN  [T1 EXCEPT !.rememberedTxs =
                       [n \in Nodes |->
                           IF n \in peers
                           THEN [h \in DOMAIN @[n] \ txs |-> @[n][h]]
                           ELSE @[n]]]

NoTx == [txid |-> 0, hash |-> 0, data |-> <<>>]

\* knownTxsCaches.where(cache => cache.has(hash)).select(cache =>
\* cache.get(hash)).firstOrDefault()
RECURSIVE firstCached(_, _)
firstCached(caches, hash) ==
    IF caches = <<>> THEN NoTx
    ELSE IF hash \in DOMAIN Head(caches) THEN Head(caches)[hash]
    ELSE firstCached(Tail(caches), hash)

\* the first loop of handleRemember_tx (lines 131-145) over the hashes left:
\* the rememberedTxs of the sender, or closed
RECURSIVE rememberHashes(_, _, _)
rememberHashes(T, remembered, txHashes) ==
    IF txHashes = <<>> THEN [closed |-> FALSE, remembered |-> remembered]
    ELSE LET hash == Head(txHashes)
             knownTx == IF hash \in DOMAIN T.knownTxs THEN T.knownTxs[hash]
                        ELSE firstCached(T.knownTxsCaches, hash)
         IN  IF hash \in DOMAIN remembered
             THEN [closed |-> TRUE, remembered |-> remembered]
             ELSE IF knownTx = NoTx
             THEN [closed |-> TRUE, remembered |-> remembered]
             ELSE rememberHashes(T, MapSet(remembered, hash, knownTx), Tail(txHashes))

\* the second loop of handleRemember_tx (lines 148-158) over the transactions
\* left: the rememberedTxs of the sender and the copy of knownTxs, or closed
RECURSIVE rememberTxs(_, _, _)
rememberTxs(remembered, known, txs) ==
    IF txs = <<>> THEN [closed |-> FALSE, remembered |-> remembered, known |-> known]
    ELSE LET txHash == Head(txs)
         IN  IF txHash \in DOMAIN remembered
             THEN [closed |-> TRUE, remembered |-> remembered, known |-> known]
             ELSE rememberTxs(MapSet(remembered, txHash, TxTemplate(txHash)),
                              MapSet(known, txHash, TxTemplate(txHash)), Tail(txs))

\* handleRemember_tx(sender, txHashes, txs): the side it leaves, and whether
\* it closed the sender
handleRemember_tx(T, sender, txHashes, txs) ==
    LET first == rememberHashes(T, T.rememberedTxs[sender], txHashes)
        second == rememberTxs(first.remembered, T.knownTxs, txs)
    IN  IF first.closed
        THEN [closed |-> TRUE,
              side |-> [T EXCEPT !.rememberedTxs[sender] = first.remembered]]
        ELSE IF second.closed
        THEN [closed |-> TRUE,
              side |-> [T EXCEPT !.rememberedTxs[sender] = second.remembered]]
        ELSE [closed |-> FALSE,
              side |-> setKnownTxs([T EXCEPT !.rememberedTxs[sender] = second.remembered],
                                   second.known)]

\* share.info.newTransactionHashes: the transactions a share is the first to
\* name
newTransactionHashes(share) == IF share.absheight % 2 = 0 THEN <<1>> ELSE <<2, 1>>

\* the inner loop of handleShares (lines 171-196) over the hashes left of one
\* share
RECURSIVE resolveTxs(_, _, _, _)
resolveTxs(T, sender, newTxs, txHashes) ==
    IF txHashes = <<>> THEN newTxs
    ELSE LET txHash == Head(txHashes)
             rest == Tail(txHashes)
             cached == firstCached(T.knownTxsCaches, txHash)
         IN  IF txHash \in DOMAIN T.knownTxs
             THEN resolveTxs(T, sender, MapSet(newTxs, txHash, T.knownTxs[txHash]), rest)
             ELSE IF txHash \in DOMAIN T.rememberedTxs[sender]
             THEN resolveTxs(T, sender,
                             MapSet(newTxs, txHash, T.rememberedTxs[sender][txHash]), rest)
             ELSE IF txHash \in DOMAIN T.miningTxs
             THEN resolveTxs(T, sender, newTxs, rest)
             ELSE IF \E i \in 1..Len(remoteTxHashs[sender]) :
                         remoteTxHashs[sender][i] = txHash
             THEN resolveTxs(T, sender, newTxs, rest)
             ELSE IF cached = NoTx THEN newTxs
             ELSE resolveTxs(T, sender, MapSet(newTxs, txHash, cached), rest)

\* the outer loop of handleShares (line 168) over the wrappers left
RECURSIVE collectTxs(_, _, _, _)
collectTxs(T, sender, newTxs, wrappers) ==
    IF wrappers = <<>> THEN newTxs
    ELSE collectTxs(T, sender,
                    IF Head(wrappers).validity
                    THEN resolveTxs(T, sender, newTxs, newTransactionHashes(Head(wrappers)))
                    ELSE newTxs,
                    Tail(wrappers))

\* the part of handleShares on the transaction views (lines 167-206)
\* the handler sending the wrappers to every node, the sender included
handleSharesTxsToAll(T, sender, wrappers) ==
    broadcast(setKnownTxs(T, collectTxs(T, sender, T.knownTxs, wrappers)),
              peers,
              LAMBDA n : Msg("shares", {}, {}, 0, wrappers))

handleSharesTxs(T, sender, wrappers) ==
    broadcast(setKnownTxs(T, collectTxs(T, sender, T.knownTxs, wrappers)),
              peers \ {sender},
              LAMBDA n : Msg("shares", {}, {}, 0, wrappers))

\* the transaction side written back
ApplyTx(T) ==
    /\ knownTxs' = T.knownTxs
    /\ knownTxsCaches' = T.knownTxsCaches
    /\ miningTxs' = T.miningTxs
    /\ rememberedTxs' = T.rememberedTxs
    /\ sent' = T.sent
    /\ haveTxSent' = T.haveTxSent

UpdateMiningTemplate(template) ==
    /\ call' = Called("updateMiningTemplate", <<>>)
    /\ ret' = "undefined"
    /\ events' = <<>>
    /\ ApplyTx(updateMiningTemplate(TxSide, template))
    /\ UNCHANGED <<chainVars, peers, isJs2PoolPeer, pendingShareRequests,
                   unanswered, server, remoteTxHashs, versionHandling, linkVars>>

RemoveDeprecatedTxs(txs) ==
    /\ call' = Called("removeDeprecatedTxs", <<>>)
    /\ ret' = "undefined"
    /\ events' = <<>>
    /\ ApplyTx(removeDeprecatedTxs(TxSide, txs))
    /\ UNCHANGED <<chainVars, peers, isJs2PoolPeer, pendingShareRequests,
                   unanswered, server, remoteTxHashs, versionHandling, linkVars>>

HandleRemember_tx(sender, txHashes, txs) ==
    LET handled == handleRemember_tx(TxSide, sender, txHashes, txs)
    IN  /\ call' = Called("handleRemember_tx", <<>>)
        /\ ret' = "undefined"
        /\ events' = <<>>
        /\ UNCHANGED <<chainVars, pendingShareRequests, server, linkVars>>
        /\ IF handled.closed
           THEN /\ Ended(sender)
                /\ sent' = [m \in Nodes |-> <<>>]
                /\ UNCHANGED <<knownTxs, knownTxsCaches, miningTxs>>
           ELSE /\ ApplyTx(handled.side)
                /\ UNCHANGED <<peers, isJs2PoolPeer, unanswered, remoteTxHashs,
                               versionHandling>>

HandleShares(sender, wrappers) ==
    /\ call' = Called("handleShares", wrappers)
    /\ UNCHANGED <<peers, isJs2PoolPeer, remoteTxHashs, versionHandling, linkVars>>
    /\ IF Len(wrappers) = 0
          \/ \A i \in 1..Len(wrappers) : wrappers[i].hash \in DOMAIN hashIndexer
       THEN /\ ret' = "undefined"
            /\ events' = <<>>
            /\ sent' = [m \in Nodes |-> <<>>]
            /\ UNCHANGED <<chainVars, pendingShareRequests, unanswered, server,
                           knownTxs, knownTxsCaches, miningTxs, rememberedTxs,
                           haveTxSent>>
       ELSE LET added == add(Chain, wrappers)
                verOut == verify(added.chain)
            IN  /\ Apply(Outcome(verOut.chain, "undefined",
                                 added.events \o verOut.events))
                /\ \E P \in deliverAll({PeerSide}, added.events \o verOut.events) :
                       ApplyPeer(P)
                /\ ApplyTx(handleSharesTxs(TxSide, sender, wrappers))

(***************************************************************************)
(* The version message of a node.  Node.handleVersion records the          *)
(* sub-version and triggers Version; the coordinator's handler writes      *)
(* have_tx, waits for the write, writes remember_tx, waits again and then  *)
(* asks for the best share of the remote side.  versionHandling[n] is the  *)
(* position of that handler: stage 1 after the first write, stage 2 after  *)
(* the second.                                                             *)
(***************************************************************************)

Version(subVersion, bestShareHash) ==
    [subVersion |-> subVersion, bestShareHash |-> bestShareHash]

\* version.subVersion.startsWith('js2pool')
startsWithJs2pool(subVersion) == subVersion = "js2pool"

\* the handler up to its first await
handleNodeVersion(T, sender) ==
    broadcast(T, {sender},
              LAMBDA n : Msg("have_tx", DOMAIN T.knownTxs, {}, 0, <<>>))

\* the handler between its first and its second await
handleNodeVersionRemember(T, sender) ==
    broadcast(T, {sender},
              LAMBDA n : Msg("remember_tx", {},
                             {T.miningTxs[h] : h \in DOMAIN T.miningTxs}, 0, <<>>))

\* the handler after its second await
handleNodeVersionSharereq(T, sender, bestShareHash) ==
    IF bestShareHash = 0 THEN T
    ELSE IF bestShareHash \in DOMAIN hashIndexer THEN T
    ELSE broadcast(T, {sender},
                   LAMBDA n : Msg("sharereq", {bestShareHash}, {}, 0, <<>>))

\* a version message of node sender is dispatched
HandleVersion(sender, version) ==
    /\ versionHandling[sender].stage = 0
    /\ call' = Called("handleVersion", <<>>)
    /\ ret' = "undefined"
    /\ events' = <<>>
    /\ isJs2PoolPeer' = [isJs2PoolPeer EXCEPT
                             ![sender] = startsWithJs2pool(version.subVersion)]
    /\ versionHandling' = [versionHandling EXCEPT
                               ![sender] = [stage |-> 1,
                                            bestShareHash |-> version.bestShareHash]]
    /\ ApplyTx(handleNodeVersion(TxSide, sender))
    /\ UNCHANGED <<chainVars, peers, pendingShareRequests, unanswered, server,
                   remoteTxHashs, linkVars>>

\* a write of the handler has completed and the handler goes on
ResumeNodeVersion(sender) ==
    /\ versionHandling[sender].stage > 0
    /\ call' = Called("handleNodeVersion", <<>>)
    /\ ret' = "undefined"
    /\ events' = <<>>
    /\ IF versionHandling[sender].stage = 1
       THEN /\ versionHandling' = [versionHandling EXCEPT ![sender].stage = 2]
            /\ ApplyTx(handleNodeVersionRemember(TxSide, sender))
       ELSE /\ versionHandling' = [versionHandling EXCEPT ![sender] = NotHandling]
            /\ ApplyTx(handleNodeVersionSharereq(
                           TxSide, sender, versionHandling[sender].bestShareHash))
    /\ UNCHANGED <<chainVars, peers, isJs2PoolPeer, pendingShareRequests,
                   unanswered, server, remoteTxHashs, linkVars>>

\* the version messages of the remote side
Versions ==
    {Version(v, b) : v \in {"js2pool", "p2pool"},
                     b \in {0, HashOf(0, 1), HashOf(1, 1)}}

\* the lists of a remember_tx message: no or one hash, no or one transaction
TxLists == {<<>>} \cup {<<h>> : h \in Txs}

\* the shares of a shares message
TxShares == {ShareAt(0, 1), ShareAt(1, 1)}

SharesInputs ==
    {<<s>> : s \in TxShares} \cup {p \in TxShares \X TxShares : p[1] # p[2]}

(***************************************************************************)
(* One connection and its Node object.  The remote side writes frames; the *)
(* bytes reach the socket in data events of any size.  A frame is a header *)
(* of four fields (magic, command, payload length, checksum), counted as   *)
(* one unit each, followed by the units of the payload.                    *)
(***************************************************************************)

\* the node of the coordinator that this connection belongs to
Conn == 1

\* most frames the remote side writes on the connection
MaxFrames == 2

\* most calls of close() from outside the Node
MaxCloses == 2

\* the size above which handleHave_tx evicts
REMOTE_TX_HASHS == 2

\* the hashes a have_tx or losing_tx names
RemoteHashes == 1..(REMOTE_TX_HASHS + 1)

\* the header, in fields
PROTOCOL_HEAD_LENGTH == 4

\* Message.magic, as one unit
Magic == 1

\* the default of the constructor's peerPort
peerPort == 9333

\* the commands on the wire, by the unit that encodes them
CommandNames == <<"have_tx", "losing_tx", "addrme", "zz">>

\* data.slice(8, 20).toString().replace(/\0+$/, '')
commandOf(unit) == CommandNames[unit]

\* the keys of msgHandlers
msgHandlers ==
    {"version", "ping", "pong", "addrs", "addrme", "getaddrs", "have_tx",
     "losing_tx", "forget_tx", "remember_tx", "bestblock", "shares", "sharereq"}

\* utils.sha256d(payload).readUInt32LE(0), as a digest of five values
RECURSIVE weigh(_)
weigh(payload) ==
    IF payload = <<>> THEN 0
    ELSE Len(payload) * Head(payload) + weigh(Tail(payload))

sha256d(payload) == (1 + Len(payload) + weigh(payload)) % 5

\* a frame as the remote side writes it
Frame(magic, command, payload, checksum) ==
    [magic |-> magic, command |-> command, payload |-> payload,
     checksum |-> checksum]

\* the bytes of a frame
toBuffer(frame) ==
    <<frame.magic, frame.command, Len(frame.payload), frame.checksum>>
        \o frame.payload

\* an event of the Node
NodeEvent(name, reason) == [name |-> name, reason |-> reason]

\* the Node while one of its callbacks runs
NodeSide ==
    [socket |-> socket, reader |-> reader, dispatched |-> dispatched,
     emitted |-> <<>>, ends |-> ends, remoteTxHashs |-> remoteTxHashs[Conn],
     peers |-> peers]

trigger(N, name, reason) ==
    [N EXCEPT !.emitted = Append(@, NodeEvent(name, reason))]

\* Node.close(); the End handler of the coordinator (Peer.ts line 262) runs
\* inside trigger
close(N) ==
    LET ended == [N EXCEPT !.socket.ended = TRUE, !.socket.listeners = {}]
        triggered == trigger(ended, "End", "")
    IN  [triggered EXCEPT !.ends = @ + 1, !.peers = @ \ {Conn}]

\* Set.add on a set kept in insertion order
RECURSIVE addAll(_, _)
addAll(set, hashes) ==
    IF hashes = <<>> THEN set
    ELSE addAll(IF \E i \in 1..Len(set) : set[i] = Head(hashes)
                THEN set ELSE Append(set, Head(hashes)),
                Tail(hashes))

\* the while loop of handleHave_tx
RECURSIVE evict(_)
evict(set) == IF Len(set) > REMOTE_TX_HASHS THEN evict(Tail(set)) ELSE set

handleHave_tx(N, payload) ==
    LET triggered == trigger(N, "HaveTx", "")
    IN  [triggered EXCEPT !.remoteTxHashs = addAll(evict(@), payload)]

handleLosing_tx(N, payload) ==
    LET triggered == trigger(N, "LosingTx", "")
    IN  [triggered EXCEPT !.remoteTxHashs =
                         SelectSeq(@, LAMBDA h : \A i \in 1..Len(payload) :
                                                    payload[i] # h)]

handleAddrme(N, payload) ==
    IF payload[1] # peerPort
    THEN trigger(N, "BadPeer", "ports are not equal")
    ELSE trigger(N, "AddrMe", "")

\* what the read loop did with a frame
Dispatch(kind, command, payload) ==
    [kind |-> kind, command |-> command, payload |-> payload]

\* lines 181-187: the handler of the command, or unknownCommand
dispatch(N, command, payload) ==
    IF command \in msgHandlers
    THEN LET handled == IF command = "have_tx" THEN handleHave_tx(N, payload)
                        ELSE IF command = "losing_tx"
                        THEN handleLosing_tx(N, payload)
                        ELSE IF command = "addrme" THEN handleAddrme(N, payload)
                        ELSE N
         IN  [handled EXCEPT !.dispatched =
                                 Append(@, Dispatch("handler", command, payload))]
    ELSE [trigger(N, "UnknownCommand", command) EXCEPT
              !.dispatched = Append(@, Dispatch("unknownCommand", command, payload))]

\* readFlowingBytesAsync without enough bytes: stream.once('data', readData)
waitForData(N) == [N EXCEPT !.socket.listeners = @ \cup {"data"}]

\* the read loop starting over where it stops
stopReadingGoesOn(N) ==
    waitForData([N EXCEPT !.reader = [NotReading EXCEPT !.stage = "head"]])

\* the read loop stops
stopReading(N) == [N EXCEPT !.reader.stage = "stopped"]

\* the next round of the loop, started without the bytes that were left
nextTickDropsRemain(N, remain) ==
    [N EXCEPT !.reader = [NotReading EXCEPT !.stage = "head"]]

\* process.nextTick(() => beginReceivingMessagesAsync(remain))
nextTick(N, remain) ==
    [N EXCEPT !.reader = [NotReading EXCEPT !.stage = "head", !.buff = remain]]

\* the read loop from its position until it has to wait for bytes
RECURSIVE beginReceivingMessagesAsync(_)
beginReceivingMessagesAsync(N) ==
    LET buff == N.reader.buff
    IN  IF N.reader.stage = "head"
        THEN IF Len(buff) < PROTOCOL_HEAD_LENGTH THEN waitForData(N)
             ELSE LET data == SubSeq(buff, 1, PROTOCOL_HEAD_LENGTH)
                      lopped == SubSeq(buff, PROTOCOL_HEAD_LENGTH + 1, Len(buff))
                  IN  IF data[1] # Magic
                      THEN stopReading(close(trigger(N, "BadPeer", "Bad magic number")))
                      ELSE beginReceivingMessagesAsync(
                               [N EXCEPT !.reader =
                                    [stage |-> "payload", buff |-> lopped,
                                     command |-> commandOf(data[2]),
                                     length |-> data[3], checksum |-> data[4]]])
        ELSE IF Len(buff) < N.reader.length THEN waitForData(N)
             ELSE LET payload == SubSeq(buff, 1, N.reader.length)
                      remain == SubSeq(buff, N.reader.length + 1, Len(buff))
                  IN  IF sha256d(payload) # N.reader.checksum
                      THEN stopReading(close(trigger(N, "BadPeer", "Bad checksum")))
                      ELSE beginReceivingMessagesAsync(
                               nextTick(dispatch(N, N.reader.command, payload),
                                        remain))

\* readData(data), the once-listener of 'data'
readData(N, data) ==
    beginReceivingMessagesAsync(
        [N EXCEPT !.socket.listeners = @ \ {"data"}, !.reader.buff = @ \o data])

\* the Node written back
ApplyNode(N) ==
    /\ socket' = N.socket
    /\ reader' = N.reader
    /\ dispatched' = N.dispatched
    /\ emitted' = N.emitted
    /\ ends' = N.ends
    /\ remoteTxHashs' = [remoteTxHashs EXCEPT ![Conn] = N.remoteTxHashs]
    /\ peers' = N.peers
    /\ UNCHANGED <<chainVars, call, ret, events, isJs2PoolPeer,
                   pendingShareRequests, unanswered, server, knownTxs,
                   knownTxsCaches, miningTxs, rememberedTxs, sent, haveTxSent,
                   versionHandling>>

\* connectAsync succeeds: the read loop starts, and initPeersAsync registers
\* the node
connectAsync ==
    /\ reader.stage = "none"
    /\ ~socket.ended
    /\ socket.readable
    /\ ApplyNode([beginReceivingMessagesAsync(
                      [NodeSide EXCEPT !.reader.stage = "head"])
                     EXCEPT !.peers = @ \cup {Conn}])
    /\ UNCHANGED <<incoming, written>>

\* the remote side writes a frame
RemoteWrite(frame) ==
    /\ reader.stage # "none"
    /\ socket.readable
    /\ Len(written) < MaxFrames
    /\ written' = Append(written, frame)
    /\ incoming' = incoming \o toBuffer(frame)
    /\ ApplyNode(NodeSide)

\* a data event with the first k bytes in flight; without a listener the
\* bytes of a flowing stream are lost
Data(k) ==
    /\ socket.readable
    /\ k \in 1..Len(incoming)
    /\ incoming' = SubSeq(incoming, k + 1, Len(incoming))
    /\ UNCHANGED written
    /\ IF "data" \in socket.listeners
       THEN ApplyNode(readData(NodeSide, SubSeq(incoming, 1, k)))
       ELSE ApplyNode(NodeSide)

\* the remote side ends the stream: the once-listener of 'end' calls close()
SocketEnd ==
    /\ socket.readable
    /\ reader.stage # "none"
    /\ UNCHANGED <<incoming, written>>
    /\ LET N == [NodeSide EXCEPT !.socket.readable = FALSE]
       IN  IF "end" \in socket.listeners THEN ApplyNode(close(N)) ELSE ApplyNode(N)

\* the socket fails: the once-listener of 'error' destroys it and calls
\* close()
SocketError ==
    /\ socket.readable
    /\ "error" \in socket.listeners
    /\ UNCHANGED <<incoming, written>>
    /\ ApplyNode(close([NodeSide EXCEPT !.socket.readable = FALSE]))

\* the idle timer expires: the callback of socket.setTimeout, a once-listener
\* of 'timeout'
SocketTimeout ==
    /\ "timeout" \in socket.listeners
    /\ UNCHANGED <<incoming, written>>
    /\ ApplyNode(trigger([NodeSide EXCEPT !.socket.listeners = @ \ {"timeout"}],
                         "Timeout", ""))

\* close() is called from outside the Node
Close ==
    /\ ends < MaxCloses
    /\ UNCHANGED <<incoming, written>>
    /\ ApplyNode(close(NodeSide))

\* the payloads of have_tx: hashes in increasing order, two at most
HashLists ==
    {<<>>} \cup {<<h>> : h \in RemoteHashes}
           \cup {p \in RemoteHashes \X RemoteHashes : p[1] < p[2]}

\* the well-formed frames of the remote side
GoodFrames ==
    {Frame(Magic, 1, p, sha256d(p)) : p \in HashLists}
        \cup {Frame(Magic, 2, <<h>>, sha256d(<<h>>)) : h \in RemoteHashes}
        \cup {Frame(Magic, 3, <<p>>, sha256d(<<p>>)) : p \in {peerPort, peerPort + 1}}
        \cup {Frame(Magic, 4, p, sha256d(p)) : p \in {<<>>, <<1>>}}

\* frames with another magic or another checksum
BadFrames ==
    {Frame(Magic + 1, 1, <<1>>, sha256d(<<1>>)),
     Frame(Magic, 1, <<1>>, (sha256d(<<1>>) + 1) % 5),
     Frame(Magic, 4, <<>>, (sha256d(<<>>) + 1) % 5)}

\* the server accepts a connection: the node is registered (lines 59-65)
handleNodeConnected ==
    \E n \in Nodes \ peers :
        /\ server
        /\ peers' = peers \cup {n}
        /\ call' = Called("handleNodeConnected", <<>>)
        /\ ret' = "undefined"
        /\ events' = <<>>
        /\ UNCHANGED <<chainVars, isJs2PoolPeer, pendingShareRequests, unanswered, server>>
        /\ sent' = [m \in Nodes |->
                       IF m = n THEN <<Msg("version", {}, {}, 0, <<>>)>> ELSE <<>>]
        /\ UNCHANGED <<knownTxs, knownTxsCaches, miningTxs, rememberedTxs,
                       remoteTxHashs, haveTxSent, versionHandling, linkVars>>

(***************************************************************************)
(* The share requests of the remote side.                                  *)
(***************************************************************************)

\* a sharereq message as the coordinator receives it
TypeSharereq(id, hashes, parents, stops) ==
    [id |-> id, hashes |-> hashes, parents |-> parents, stops |-> stops]

\* a sharereply message as the coordinator writes it
TypeSharereply(id, result, shares) ==
    [command |-> "sharereply", id |-> id, result |-> result, shares |-> shares]

\* the inner loop of handleSharereq (lines 217-220): the shares of one
\* subchain up to the first one named in stops
RECURSIVE untilStop(_, _)
untilStop(shares, stops) ==
    IF shares = <<>> THEN <<>>
    ELSE IF Head(shares).hash \in stops THEN <<>>
    ELSE <<Head(shares)>> \o untilStop(Tail(shares), stops)

\* the outer loop of handleSharereq (lines 215-221)
RECURSIVE collectShares(_, _, _, _)
collectShares(c, hashes, parents, stops) ==
    IF hashes = <<>> THEN <<>>
    ELSE untilStop(subchain(c, Head(hashes), parents, "backward"), stops)
             \o collectShares(c, Tail(hashes), parents, stops)

\* the reply written to the sender
handleSharereq(c, js2pool, request) ==
    LET parents == Min(Min(request.parents,
                           IF Len(request.hashes) = 0 THEN 0
                           ELSE 500 \div Len(request.hashes)),
                       IF js2pool THEN 500 ELSE 100)
        shares == collectShares(c, request.hashes, parents, request.stops)
    IN  IF Len(shares) = 0 THEN TypeSharereply(request.id, 2, <<>>)
        ELSE TypeSharereply(request.id, 0, shares)

\* a sharereq of node sender is dispatched
HandleSharereq(sender, request) ==
    /\ call' = Called("handleSharereq", <<>>)
    /\ ret' = "undefined"
    /\ events' = <<>>
    /\ sent' = [n \in Nodes |->
                   IF n = sender
                   THEN <<handleSharereq(Chain, isJs2PoolPeer[sender], request)>>
                   ELSE <<>>]
    /\ UNCHANGED <<chainVars, peers, isJs2PoolPeer, pendingShareRequests,
                   unanswered, server, knownTxs, knownTxsCaches, miningTxs,
                   rememberedTxs, remoteTxHashs, haveTxSent, versionHandling,
                   linkVars>>

\* the shares that reach the store while requests are answered: a chain of
\* three and a second share at its middle height
RequestShares == {ShareAt(0, 1), ShareAt(1, 1), ShareAt(1, 2), ShareAt(2, 1)}

\* the hashes a request names, and the requests of the remote side
RequestHashes == {s.hash : s \in RequestShares}

Requests ==
    {TypeSharereq(7, hashes, parents, stops) :
        hashes \in {<<>>} \cup {<<h>> : h \in RequestHashes}
                   \cup {p \in RequestHashes \X RequestHashes : p[1] # p[2]},
        parents \in 0..2,
        stops \in {{}, {HashOf(1, 1)}}}

\* the store under append and add alone
Next == DoAppend \/ DoAdd

Spec == Init /\ [][Next]_vars

\* the store under append, verify and checkGaps
NextVerify == DoAppend \/ DoVerify \/ DoCheckGaps

SpecVerify == Init /\ [][NextVerify]_vars

\* the coordinator with its nodes: shares arrive at the store, nodes connect
\* and end, and the remote sides answer the share requests
NextPeer == DoAppendPeer \/ registerNode \/ End \/ handleSharereply

SpecPeer == Init /\ [][NextPeer]_vars

\* a sharereq is on the socket of a connected node: handleSharereply is
\* enabled
RepliesDue == \E n \in peers : unanswered[n] # <<>>

\* WF_vars(handleSharereply), written out over its enabling condition and the
\* steps that are a handleSharereply: a sharereq that stays on a socket is
\* answered in the end
RepliesFair ==
    \/ []<>(~RepliesDue)
    \/ []<><<call'.op = "handleSharereply">>_vars

\* the coordinator that does not stop while a share, a node or a reply can
\* arrive, and whose share requests are all answered in the end
SpecPeerLive == Init /\ [][NextPeer]_vars /\ WF_vars(NextPeer) /\ RepliesFair

\* the coordinator's transaction views: block templates arrive, transactions
\* are deprecated, nodes connect and end
NextTx ==
    \/ \E template \in SUBSET Txs : UpdateMiningTemplate(template)
    \/ \E txs \in SUBSET Txs : RemoveDeprecatedTxs(txs)
    \/ \E n \in peers : \E txHashes \in TxLists : \E txs \in TxLists :
           HandleRemember_tx(n, txHashes, txs)
    \/ \E n \in peers : \E wrappers \in SharesInputs : HandleShares(n, wrappers)
    \/ registerNode
    \/ End

SpecTx == Init /\ [][NextTx]_vars

\* a share is appended to the store
AppendTxShare == AppendOf(TxShares)

\* the version handshake of the nodes among the arrival of block templates
\* and of shares
NextVersion ==
    \/ \E template \in SUBSET Txs : UpdateMiningTemplate(template)
    \/ \E n \in peers : \E version \in Versions : HandleVersion(n, version)
    \/ \E n \in peers : ResumeNodeVersion(n)
    \/ AppendTxShare
    \/ registerNode
    \/ End

SpecVersion == Init /\ [][NextVersion]_vars

\* the coordinator with its listening server: the nodes it connects to, the
\* nodes that connect to it, and the shares and replies they send
NextServer ==
    \/ DoAppendPeer
    \/ registerNode
    \/ handleNodeConnected
    \/ End
    \/ handleSharereply

SpecServer == Init /\ [][NextServer]_vars

\* the coordinator answering share requests while shares arrive
NextReq ==
    \/ AppendOf(RequestShares)
    \/ registerNode
    \/ End
    \/ \E n \in peers : \E request \in Requests : HandleSharereq(n, request)

SpecReq == Init /\ [][NextReq]_vars

\* one connection: frames arrive in data events, the socket ends, fails or
\* times out, and close() is called
NextNode ==
    \/ connectAsync
    \/ \E frame \in GoodFrames \cup BadFrames : RemoteWrite(frame)
    \/ \E k \in 1..Len(incoming) : Data(k)
    \/ SocketEnd
    \/ SocketError
    \/ SocketTimeout
    \/ Close

SpecNode == Init /\ [][NextNode]_vars

(***************************************************************************)
(* The claims about the share-chain store.                                 *)
(***************************************************************************)

\* the hashes of the shares held in the lists of absheightIndexer
StoredHashes ==
    UNION {{absheightIndexer[h][i].hash : i \in 1..Len(absheightIndexer[h])} :
           h \in DOMAIN absheightIndexer}

\* the share is in the list at its height
Held(share) ==
    /\ share.absheight \in DOMAIN absheightIndexer
    /\ \E i \in 1..Len(absheightIndexer[share.absheight]) :
           absheightIndexer[share.absheight][i].hash = share.hash

HeldAfter(share) ==
    /\ share.absheight \in DOMAIN absheightIndexer'
    /\ \E i \in 1..Len(absheightIndexer'[share.absheight]) :
           absheightIndexer'[share.absheight][i].hash = share.hash

Emitted(evs, name) == SelectSeq(evs, LAMBDA e : e.name = name)

\* C1: the keys of hashIndexer are exactly the hashes of the shares held in
\* the lists of absheightIndexer, and hashIndexer maps every hash to the
\* height whose list holds that share.
C1_IndexesAgree ==
    /\ DOMAIN hashIndexer = StoredHashes
    /\ \A k \in DOMAIN hashIndexer :
          /\ hashIndexer[k] \in DOMAIN absheightIndexer
          /\ \E i \in 1..Len(absheightIndexer[hashIndexer[k]]) :
                 /\ absheightIndexer[hashIndexer[k]][i].hash = k
                 /\ absheightIndexer[hashIndexer[k]][i].absheight = hashIndexer[k]

\* an append has evicted the height of oldest and reordered the height below
\* the new tip
C1_Witness ==
    /\ call.op = "append"
    /\ hasValue(oldest)
    /\ oldest.absheight \notin DOMAIN absheightIndexer
    /\ oldest.hash \notin DOMAIN hashIndexer
    /\ Emitted(events, "OrphansFound") # <<>>
    /\ DOMAIN hashIndexer # {}

\* C2: whenever newest and oldest are both defined,
\* newest.absheight - oldest.absheight <= MAX_CHAIN_LENGTH.
C2_WindowBounded ==
    (hasValue(newest) /\ hasValue(oldest))
        => newest.absheight - oldest.absheight <= MAX_CHAIN_LENGTH

\* no share whose validity is false is in either index
NoInvalidStored ==
    /\ \A h \in DOMAIN absheightIndexer :
          \A i \in 1..Len(absheightIndexer[h]) : absheightIndexer[h][i].validity
    /\ \A s \in Shares : ~s.validity => s.hash \notin DOMAIN hashIndexer

\* a step that is append of an invalid share returns false, triggers no
\* event and leaves both indexes, newest and oldest as they were
InvalidRejected ==
    \A s \in Shares :
        (call' = Called("append", <<s>>) /\ ~s.validity)
            => /\ ret' = "false"
               /\ events' = <<>>
               /\ UNCHANGED chainVars

\* C3: a share whose validity is false never appears in hashIndexer or in a
\* list of absheightIndexer, whatever append and add calls were made; append
\* of such a share returns false, changes neither index nor newest/oldest
\* and emits no event.
C3_InvalidNeverAdmitted == []NoInvalidStored /\ [][InvalidRejected]_vars

\* an invalid share was offered to a store that holds shares
C3_Witness ==
    /\ call.op = "append"
    /\ ~call.args[1].validity
    /\ ret = "false"
    /\ hasValue(newest)
    /\ Cardinality(DOMAIN hashIndexer) >= 2

\* no list holds two shares of one hash
NoDuplicateHeld ==
    \A h \in DOMAIN absheightIndexer :
        \A i, j \in 1..Len(absheightIndexer[h]) :
            absheightIndexer[h][i].hash = absheightIndexer[h][j].hash => i = j

\* a step that is append of a share already held at its height returns
\* false, triggers no event and leaves the store as it was
DuplicateRejected ==
    \A s \in Shares :
        (call' = Called("append", <<s>>) /\ s.validity /\ Held(s))
            => /\ ret' = "false"
               /\ events' = <<>>
               /\ UNCHANGED chainVars

\* C4: append of a share whose hash is already stored at its height returns
\* false, leaves hashIndexer, absheightIndexer (list order included), newest
\* and oldest unchanged and emits no event; no list ever holds two shares of
\* the same hash.
C4_DuplicateIdempotent == []NoDuplicateHeld /\ [][DuplicateRejected]_vars

\* a valid share was appended a second time: only a duplicate is turned
\* down without an event
C4_Witness ==
    /\ call.op = "append"
    /\ call.args[1].validity
    /\ Held(call.args[1])
    /\ ret = "false"
    /\ events = <<>>
    /\ Len(absheightIndexer[call.args[1].absheight]) >= 2

\* C5: for every two stored adjacent heights h and h+1, if the share named
\* by previousShareHash of the index-0 share at h+1 is stored at height h,
\* then that share is at index 0 of the list at h.
C5_IndexZeroIsMainChain ==
    \A h \in DOMAIN absheightIndexer :
        (h + 1) \in DOMAIN absheightIndexer =>
            LET parent == absheightIndexer[h + 1][1].previousShareHash
            IN  (\E i \in 1..Len(absheightIndexer[h]) :
                     absheightIndexer[h][i].hash = parent)
                    => absheightIndexer[h][1].hash = parent

\* the case of a dead share, on the store before the call: D is valid, not
\* yet held, below newest, other shares are held at its height and no share
\* held one height above names it as parent
DeadCase(D) ==
    /\ D.validity
    /\ ~Held(D)
    /\ hasValue(newest)
    /\ D.absheight < newest.absheight
    /\ D.absheight \in DOMAIN absheightIndexer
    /\ Len(absheightIndexer[D.absheight]) >= 1
    /\ \A i \in 1..Len(listAt(Chain, D.absheight + 1)) :
           listAt(Chain, D.absheight + 1)[i].previousShareHash # D.hash

\* C6: append of a dead share D emits deadArrived(D), returns false and
\* leaves D in neither hashIndexer nor absheightIndexer.
C6_DeadShareNotIndexed ==
    [][\A D \in Shares :
          (call' = Called("append", <<D>>) /\ DeadCase(D))
              => /\ Emitted(events', "DeadArrived")
                        = <<Event("DeadArrived", <<D>>, <<>>)>>
                 /\ ret' = "false"
                 /\ D.hash \notin DOMAIN hashIndexer'
                 /\ ~HeldAfter(D)]_vars

\* the case of orphan resolution at a new tip, on the store before the
\* call: C is valid, above newest, and the list one height below holds two
\* or more shares, one of them the parent of C
OrphanCase(C) ==
    /\ C.validity
    /\ hasValue(newest)
    /\ C.absheight > newest.absheight
    /\ Len(listAt(Chain, C.absheight - 1)) >= 2
    /\ \E i \in 1..Len(listAt(Chain, C.absheight - 1)) :
           listAt(Chain, C.absheight - 1)[i].hash = C.previousShareHash

\* C7: when append admits a new tip C and the list at C.absheight-1 holds
\* two or more shares, one of which (A) is the parent of C, then orphansFound
\* is emitted exactly once, with exactly the other shares of that list, the
\* list becomes A followed by those same shares, and newest = C.
C7_OrphansAtNewTip ==
    [][\A C \in Shares :
          (call' = Called("append", <<C>>) /\ OrphanCase(C))
              => LET before == absheightIndexer[C.absheight - 1]
                     others == SelectSeq(before,
                                         LAMBDA s : s.hash # C.previousShareHash)
                     after == absheightIndexer'[C.absheight - 1]
                 IN  /\ Emitted(events', "OrphansFound")
                            = <<Event("OrphansFound", others, <<>>)>>
                     /\ after[1].hash = C.previousShareHash
                     /\ Tail(after) = others
                     /\ Len(after) = Len(before)
                     /\ newest' = C
                     /\ ret' = "true"]_vars

\* a new tip has just put its parent in front of an orphan
C7_Witness ==
    /\ call.op = "append"
    /\ newest = call.args[1]
    /\ Emitted(events, "OrphansFound") # <<>>
    /\ Emitted(events, "NewestChanged") # <<>>
    /\ absheightIndexer[newest.absheight - 1][1].hash = newest.previousShareHash
    /\ Emitted(events, "OrphansFound")[1].shares
           = Tail(absheightIndexer[newest.absheight - 1])

\* C8: append returns true if and only if the share is newly admitted: false
\* for an invalid, a duplicate and a dead share, true (never undefined or
\* false) for every other share.
C8_ReturnsTrueIffAdmitted ==
    [][\A s \in Shares :
          call' = Called("append", <<s>>)
              => IF ~s.validity \/ Held(s) \/ DeadCase(s)
                 THEN ret' = "false"
                 ELSE ret' = "true"]_vars

\* C9: whenever verify() has set verified = true after counting n shares,
\* subchain(newest.hash, n, 'backward') yields exactly n shares, the first
\* being newest, each the parent of the one yielded before it.
C9_VerifiedSubchainLinked ==
    (call.op = "verify" /\ verified /\ ret = "true")
        => LET n == verifiedCount(Chain)
               yielded == subchain(Chain, newest.hash, n, "backward")
           IN  /\ Len(yielded) = n
               /\ n >= 1
               /\ yielded[1] = newest
               /\ \A i \in 2..n : yielded[i].hash = yielded[i - 1].previousShareHash

(***************************************************************************)
(* The claims about the peer coordinator.                                  *)
(***************************************************************************)

\* C10: the coordinator never sends a sharereq for a gap (descendent,
\* length) to a peer that still has an unanswered sharereq for that same
\* (descendent, length): no socket ever holds two unanswered requests of
\* one id.
C10_NoDuplicateSharereq ==
    \A n \in Nodes :
        \A i, j \in 1..Len(unanswered[n]) :
            unanswered[n][i].id = unanswered[n][j].id => i = j

\* the id under which handleGapsFound recorded a request
KeyOf(request) == sha256Hex(request.id[1], request.id[2])

\* the number of unanswered requests of one key in a queue
CountOf(queue, key) == Len(SelectSeq(queue, LAMBDA r : KeyOf(r) = key))

\* the step wrote a new request of this key to some socket, node n having
\* answered one
RequestedAgain(n, key) ==
    \E m \in Nodes :
        CountOf(unanswered'[m], key)
            > CountOf(IF m = n THEN Tail(unanswered[m]) ELSE unanswered[m], key)

\* a sharereply carrying a recorded id removes it, whatever the result code
\* (unless the same step requests the gap again)
RemovedByReply ==
    \A n \in peers :
        unanswered[n] # <<>> =>
            \A reply \in RepliesTo(Head(unanswered[n])) :
                (handleSharereplyOf(n, reply)
                     /\ KeyOf(Head(unanswered[n])) \in pendingShareRequests)
                    => \/ KeyOf(Head(unanswered[n])) \notin pendingShareRequests'
                       \/ RequestedAgain(n, KeyOf(Head(unanswered[n])))

\* the End of the last peer that holds a request of a recorded id removes it
RemovedByDrop ==
    \A n \in peers :
        (call'.op = "End" /\ peers' = peers \ {n}) =>
            \A key \in pendingShareRequests :
                (/\ CountOf(unanswered[n], key) > 0
                 /\ \A m \in peers \ {n} : CountOf(unanswered[m], key) = 0)
                    => key \notin pendingShareRequests'

\* a recorded id is removed by nothing else
RemovedOnlyThen ==
    \A key \in pendingShareRequests \ pendingShareRequests' :
        \/ /\ call'.op = "handleSharereply"
           /\ \E n \in peers : /\ unanswered[n] # <<>>
                               /\ KeyOf(Head(unanswered[n])) = key
        \/ /\ call'.op = "End"
           /\ \E n \in peers \ peers' : CountOf(unanswered[n], key) > 0

\* C11: a request id recorded in pendingShareRequests is removed when a
\* sharereply carrying that id arrives, whatever its result code, and when
\* every peer it was sent to has disconnected, and it is never removed before
\* either of these happens.
C11_PendingUntilReplyOrDrop ==
    [][RemovedByReply /\ RemovedByDrop /\ RemovedOnlyThen]_vars

(***************************************************************************)
(* The claims about the transaction views.                                 *)
(***************************************************************************)

MiningWithinKnown == DOMAIN miningTxs \subseteq DOMAIN knownTxs

MiningIsTemplate ==
    \A template \in SUBSET Txs :
        UpdateMiningTemplate(template) => DOMAIN miningTxs' = template

\* C13: between the operations of the coordinator every key of miningTxs is
\* a key of knownTxs, and right after updateMiningTemplate(t) the keys of
\* miningTxs are exactly the transactions of t.
C13_KnownCoversMining == []MiningWithinKnown /\ [][MiningIsTemplate]_vars

\* a template has replaced a larger one: a transaction left miningTxs and
\* stays known, with a node registered and a transaction deprecated before
C13_Witness ==
    /\ call.op = "updateMiningTemplate"
    /\ DOMAIN miningTxs # {}
    /\ DOMAIN miningTxs # DOMAIN knownTxs
    /\ peers # {}
    /\ \E n \in peers : \E i \in 1..Len(sent[n]) : sent[n][i].command = "forget_tx"
    /\ knownTxsCaches # <<>>

\* the messages of one command in a list
Of(msgs, command) == SelectSeq(msgs, LAMBDA m : m.command = command)

\* the step replaced knownTxs: every operation does so once, but not a
\* remember_tx that closed its sender, nor a shares message with nothing new
Replaced ==
    \/ call'.op \in {"updateMiningTemplate", "removeDeprecatedTxs"}
    \/ call'.op = "handleRemember_tx" /\ peers' = peers
    \/ /\ call'.op = "handleShares"
       /\ \E i \in 1..Len(call'.args) : call'.args[i].hash \notin DOMAIN hashIndexer

\* C14: each replacement of knownTxs from old to new sends to every
\* registered peer exactly one have_tx carrying keys(new) minus keys(old)
\* when that set is non-empty, exactly one losing_tx carrying keys(old) minus
\* keys(new) when that set is non-empty, neither message when the set is
\* empty, and appends to knownTxsCaches one entry mapping the removed hashes
\* to their old templates.
C14_InventoryDiff ==
    [][Replaced =>
          LET added == DOMAIN knownTxs' \ DOMAIN knownTxs
              removed == DOMAIN knownTxs \ DOMAIN knownTxs'
              entry == [h \in removed |-> knownTxs[h]]
          IN  /\ \A n \in peers' :
                    /\ Of(sent'[n], "have_tx")
                           = IF added # {}
                             THEN <<Msg("have_tx", added, {}, 0, <<>>)>> ELSE <<>>
                    /\ Of(sent'[n], "losing_tx")
                           = IF removed # {}
                             THEN <<Msg("losing_tx", removed, {}, 0, <<>>)>> ELSE <<>>
              /\ knownTxsCaches' # <<>>
              /\ knownTxsCaches'[Len(knownTxsCaches')] = entry
              /\ \/ knownTxsCaches' = Append(knownTxsCaches, entry)
                 \/ knownTxsCaches' = Tail(Append(knownTxsCaches, entry))]_vars

\* two registered peers were each sent one losing_tx, the lost transactions
\* are cached, and a have_tx of an earlier replacement is still in force
C14_Witness ==
    /\ call.op = "removeDeprecatedTxs"
    /\ Cardinality(peers) = 2
    /\ \A n \in peers : /\ Len(Of(sent[n], "losing_tx")) = 1
                        /\ haveTxSent[n] # {}
    /\ DOMAIN knownTxsCaches[Len(knownTxsCaches)] # {}
    /\ Len(knownTxsCaches) = KNOWN_TXS_CACHES

\* C12: a hash added to knownTxs is named by exactly one have_tx written to
\* each registered node in that step, and a hash that a node has been told by
\* have_tx (and that no losing_tx has taken back) is not named to it again
HaveTxNaming(n, h) ==
    Len(SelectSeq(sent'[n], LAMBDA m : m.command = "have_tx" /\ h \in m.hashes))

C12_OneHaveTxPerAddition ==
    [][\A n \in peers \cap peers' : \A h \in Txs :
          /\ (h \notin DOMAIN knownTxs /\ h \in DOMAIN knownTxs')
                 => HaveTxNaming(n, h) = 1
          /\ h \in haveTxSent[n] => HaveTxNaming(n, h) = 0]_vars

\* the entries the specification of have_tx leaves: every hash inserted, then
\* the oldest evicted down to the limit
keepLast(set, n) ==
    IF Len(set) > n THEN SubSeq(set, Len(set) - n + 1, Len(set)) ELSE set

\* this step dispatches one frame, a have_tx with this payload
HaveTxStep(payload) ==
    /\ Len(dispatched') = Len(dispatched) + 1
    /\ dispatched'[Len(dispatched')] = Dispatch("handler", "have_tx", payload)

\* C15: remoteTxHashs never holds more than the limit, and a have_tx leaves
\* the newest entries, the oldest evicted first
C15_RemoteTxHashsBounded ==
    /\ [](Len(remoteTxHashs[Conn]) <= REMOTE_TX_HASHS)
    /\ [][\A payload \in HashLists :
              HaveTxStep(payload)
                  => remoteTxHashs'[Conn]
                         = keepLast(addAll(remoteTxHashs[Conn], payload),
                                    REMOTE_TX_HASHS)]_vars

\* C16: End is emitted once at most, and once the socket has been ended it
\* has been emitted exactly once and the node is out of peers
C16_EndOnce ==
    /\ ends <= 1
    /\ socket.ended => (ends = 1 /\ Conn \notin peers)

\* the frames written by the remote side, measured in bytes
frameLength(frame) == PROTOCOL_HEAD_LENGTH + Len(frame.payload)

RECURSIVE streamLength(_)
streamLength(frames) ==
    IF frames = <<>> THEN 0
    ELSE frameLength(Head(frames)) + streamLength(Tail(frames))

\* the bytes that have reached the socket in data events
Delivered == streamLength(written) - Len(incoming)

startOf(i) == streamLength(SubSeq(written, 1, i - 1))

WellFormed(frame) ==
    frame.magic = Magic /\ frame.checksum = sha256d(frame.payload)

\* the first frame of the stream that is not well-formed, 0 if there is none
FirstBad ==
    IF \E i \in 1..Len(written) : ~WellFormed(written[i])
    THEN CHOOSE i \in 1..Len(written) :
             /\ ~WellFormed(written[i])
             /\ \A j \in 1..(i - 1) : WellFormed(written[j])
    ELSE 0

\* enough of frame i has been delivered to tell that it is not well-formed:
\* its header for another magic, all of it for another checksum
Decided(i) ==
    IF written[i].magic # Magic
    THEN Delivered >= startOf(i) + PROTOCOL_HEAD_LENGTH
    ELSE Delivered >= startOf(i) + frameLength(written[i])

reasonOf(frame) ==
    IF frame.magic # Magic THEN "Bad magic number" ELSE "Bad checksum"

\* event first is emitted and End right after it
ThenEnd(evs, first) ==
    \E i \in 1..(Len(evs) - 1) : evs[i] = first /\ evs[i + 1] = NodeEvent("End", "")

\* the step in which a listening connection receives the bytes that decide
\* the first bad frame emits badPeer with the reason and then End
BadFrameCloses ==
    (/\ FirstBad # 0
     /\ "data" \in socket.listeners
     /\ ~Decided(FirstBad)
     /\ Decided(FirstBad)')
        => /\ ThenEnd(emitted', NodeEvent("BadPeer", reasonOf(written[FirstBad])))
           /\ socket'.ended
           /\ Len(dispatched') = FirstBad - 1

\* nothing is dispatched for the first bad frame nor for what follows it
NothingAfterBadFrame == FirstBad # 0 => Len(dispatched) < FirstBad

\* C17: a frame with another magic or checksum makes the connection emit
\* badPeer and End, and neither it nor any later frame is dispatched
C17_BadFrameClosesLink == []NothingAfterBadFrame /\ [][BadFrameCloses]_vars

\* a frame with another checksum, with a second frame behind it, has just
\* been refused
C17_Witness ==
    /\ Len(written) = 2
    /\ FirstBad = 1
    /\ written[1].magic = Magic
    /\ Decided(1)
    /\ emitted = <<NodeEvent("BadPeer", "Bad checksum"), NodeEvent("End", "")>>
    /\ dispatched = <<>>

\* a dispatched addrme whose port is not the recorded one
PortMismatch(d) ==
    d.kind = "handler" /\ d.command = "addrme" /\ d.payload[1] # peerPort

\* C18: an addrme with another port is the last frame its step dispatches,
\* and the last events of the step are badPeer and End (so no AddrMe for it);
\* the socket is ended
C18_PortMismatchCloses ==
    [][\A j \in (Len(dispatched) + 1)..Len(dispatched') :
          PortMismatch(dispatched'[j])
              => /\ j = Len(dispatched')
                 /\ Len(emitted') >= 2
                 /\ SubSeq(emitted', Len(emitted') - 1, Len(emitted'))
                        = <<NodeEvent("BadPeer", "ports are not equal"),
                            NodeEvent("End", "")>>
                 /\ socket'.ended]_vars

\* C19: the step that emits Timeout emits End after it, ends the socket,
\* detaches its listeners and takes the node out of peers
C19_TimeoutCloses ==
    [][(\E i \in 1..Len(emitted') : emitted'[i].name = "Timeout")
          => /\ ThenEnd(emitted', NodeEvent("Timeout", ""))
             /\ socket'.ended
             /\ socket'.listeners = {}
             /\ Conn \notin peers']_vars

\* the dispatch a well-formed frame is due
Expected(frame) ==
    Dispatch(IF commandOf(frame.command) \in msgHandlers
             THEN "handler" ELSE "unknownCommand",
             commandOf(frame.command), frame.payload)

\* the frames that have been delivered whole
Complete ==
    Cardinality({i \in 1..Len(written) :
                    startOf(i) + frameLength(written[i]) <= Delivered})

\* C20: on a receiving connection that has not been closed, the dispatches
\* are those of the well-formed frames delivered whole, one each, in wire
\* order
C20_DispatchInWireOrder ==
    (/\ reader.stage # "none"
     /\ ends = 0
     /\ \A i \in 1..Len(written) : WellFormed(written[i]))
        => dispatched = [i \in 1..Complete |-> Expected(written[i])]

\* two frames, the first of an unknown command and without payload, have
\* been dispatched by one data event
C20_Witness ==
    /\ Len(written) = 2
    /\ incoming = <<>>
    /\ ends = 0
    /\ Len(dispatched) = 2
    /\ dispatched[1] = Dispatch("unknownCommand", "zz", <<>>)
    /\ dispatched[2].kind = "handler"
    /\ Len(emitted) = 2

\* the index-0 shares at the stored heights from height downwards, n at most
RECURSIVE Descending(_, _)
Descending(height, n) ==
    IF n = 0 \/ height \notin DOMAIN absheightIndexer
       \/ Len(absheightIndexer[height]) = 0
    THEN <<>>
    ELSE <<absheightIndexer[height][1]>> \o Descending(height - 1, n - 1)

\* the stored share with this hash
Stored(hash) ==
    LET list == absheightIndexer[hashIndexer[hash]]
    IN  list[CHOOSE i \in 1..Len(list) : list[i].hash = hash]

\* the shares a reply is to carry for the hashes of a request
RECURSIVE Carried(_, _, _)
Carried(hashes, limit, stops) ==
    IF hashes = <<>> THEN <<>>
    ELSE (IF Head(hashes) \in DOMAIN hashIndexer /\ limit > 0
          THEN untilStop(<<Stored(Head(hashes))>>
                             \o Descending(hashIndexer[Head(hashes)] - 1, limit - 1),
                         stops)
          ELSE <<>>)
         \o Carried(Tail(hashes), limit, stops)

LimitOf(n, request) ==
    Min(Min(request.parents,
            IF Len(request.hashes) = 0 THEN 0 ELSE 500 \div Len(request.hashes)),
        IF isJs2PoolPeer[n] THEN 500 ELSE 100)

\* C21: a sharereq is answered by one sharereply with its id that carries,
\* for each stored hash, the share itself and the shares below it up to the
\* limit and the stops; result 0 with shares, result 2 without
C21_SharereplyCarriesSubchains ==
    [][\A n \in Nodes : \A request \in Requests :
          HandleSharereq(n, request)
              => LET shares == Carried(request.hashes, LimitOf(n, request),
                                       request.stops)
                 IN  sent'[n] = <<TypeSharereply(request.id,
                                                 IF Len(shares) = 0 THEN 2 ELSE 0,
                                                 shares)>>]_vars

\* the shares messages among the messages written to a node
SharesSent(n) == SelectSeq(sent'[n], LAMBDA m : m.command = "shares")

ServerAfterCalculatable == server => calculatable

ServerCreatedOnce ==
    /\ server => server'
    /\ (~server /\ server')
           => \E i \in 1..Len(events') : events'[i].name = "ChainCalculatable"

\* C23: the server exists only once the chain is calculatable, it is started
\* once, and a node that connects to the server is registered in a
\* calculatable chain only
C23_ServerAfterCalculatable ==
    /\ []ServerAfterCalculatable
    /\ [][ServerCreatedOnce]_vars
    /\ [][handleNodeConnected => calculatable]_vars

\* a node that connected to the server is registered
C23_Witness ==
    /\ call.op = "handleNodeConnected"
    /\ server
    /\ calculatable
    /\ peers # {}

\* verify would count the whole length of the chain, the base length at least
WholeChainVerified ==
    /\ hasValue(newest)
    /\ verifiedCount(Chain) = length(Chain)
    /\ verifiedCount(Chain) >= BASE_CHAIN_LENGTH

Fired(evs) == Len(Emitted(evs, "ChainCalculatable"))

\* C24: calculatable is latched, and ChainCalculatable fires once, in the
\* verify call that latches it: the first one that counts the whole chain
C24_CalculatableLatchedOnce ==
    [][/\ calculatable => calculatable'
       /\ IF call'.op = "verify" /\ ~calculatable /\ WholeChainVerified
          THEN calculatable' /\ Fired(events') = 1
          ELSE calculatable' = calculatable /\ Fired(events') = 0]_vars

\* a verify call on a calculatable chain has found the chain inconsistent
C24_Witness ==
    /\ call.op = "verify"
    /\ calculatable
    /\ ~verified
    /\ ret = "false"

\* the shares stored one height below a share
Below(share) == listAt(Chain, share.absheight - 1)

\* the list below the share is absent, or holds two shares or more and not
\* the parent
GapDue(share) ==
    \/ Below(share) = <<>>
    \/ /\ Len(Below(share)) >= 2
       /\ \A i \in 1..Len(Below(share)) :
              Below(share)[i].hash # share.previousShareHash

\* C25: an admitted share above newest becomes newest, newestChanged is
\* emitted, and gapsFound is emitted, with the one gap of length 1 at the
\* share, exactly when the list below is absent or holds two or more shares
\* and not the parent
C25_NewTipGap ==
    [][\A share \in Shares :
          (/\ call' = Called("append", <<share>>)
           /\ share.validity
           /\ hasValue(newest)
           /\ share.absheight > newest.absheight)
              => /\ newest' = share
                 /\ ret' = "true"
                 /\ Emitted(events', "NewestChanged")
                        = <<Event("NewestChanged", <<share>>, <<>>)>>
                 /\ Emitted(events', "GapsFound")
                        = IF GapDue(share)
                          THEN <<Event("GapsFound", <<>>,
                                       <<Gap(share.hash, share.absheight, 1)>>)>>
                          ELSE <<>>]_vars

\* a new tip has arrived above two shares neither of which is its parent
C25_Witness ==
    /\ call.op = "append"
    /\ newest = call.args[1]
    /\ Len(listAt(Chain, newest.absheight - 1)) >= 2
    /\ \A i \in 1..Len(listAt(Chain, newest.absheight - 1)) :
           listAt(Chain, newest.absheight - 1)[i].hash # newest.previousShareHash
    /\ Emitted(events, "GapsFound")
           = <<Event("GapsFound", <<>>, <<Gap(newest.hash, newest.absheight, 1)>>)>>

\* the lowest stored height
Lowest == CHOOSE h \in DOMAIN absheightIndexer : \A g \in DOMAIN absheightIndexer : h <= g

\* every height from newest down to the lowest stored one is present, and
\* its first share is the parent named by the first share one height above
Consistent ==
    /\ hasValue(newest)
    /\ \A h \in Lowest..newest.absheight :
           /\ h \in DOMAIN absheightIndexer
           /\ Len(absheightIndexer[h]) > 0
           /\ h < newest.absheight
                  => /\ (h + 1) \in DOMAIN absheightIndexer
                     /\ Len(absheightIndexer[h + 1]) > 0
                     /\ absheightIndexer[h][1].hash
                            = absheightIndexer[h + 1][1].previousShareHash

\* C26: verify returns true, and sets verified, exactly when the whole
\* stored chain is consistent
C26_VerifyIffConsistent ==
    [][call'.op = "verify"
          => /\ (ret' = "true") <=> Consistent
             /\ verified' <=> Consistent]_vars

\* the stored heights, highest first
StoredHeights == sortDescending(DOMAIN absheightIndexer)

\* the pair of neighbouring stored heights below descendent height number i,
\* written as the gap it would be
Neighbours(i) ==
    Gap(absheightIndexer[StoredHeights[i]][1].hash, StoredHeights[i],
        StoredHeights[i] - StoredHeights[i + 1])

\* the neighbours are not one height apart, or the first share of the
\* ancestor height is not the parent of the first share of the descendent
Broken(gap) ==
    LET d == gap.descendentHeight
        a == d - gap.length
    IN  \/ d # a + 1
        \/ absheightIndexer[a][1].hash # absheightIndexer[d][1].previousShareHash

TerminalGap ==
    IF hasValue(oldest) /\ newest.absheight - oldest.absheight < BASE_CHAIN_LENGTH
    THEN <<Gap(oldest.hash, oldest.absheight,
               BASE_CHAIN_LENGTH - (newest.absheight - oldest.absheight))>>
    ELSE <<>>

ExpectedGaps ==
    SelectSeq([i \in 1..(Len(StoredHeights) - 1) |-> Neighbours(i)], Broken)
    \o TerminalGap

OldestStored ==
    hasValue(oldest)
        => /\ oldest.hash \in DOMAIN hashIndexer
           /\ oldest.absheight \in DOMAIN absheightIndexer
           /\ \E i \in 1..Len(absheightIndexer[oldest.absheight]) :
                  absheightIndexer[oldest.absheight][i] = oldest
           /\ \A h \in DOMAIN absheightIndexer : oldest.absheight <= h

\* an admitted new tip that leaves the window at MAX_CHAIN_LENGTH or more
\* evicts a stored height
EvictionGoesOn ==
    \A share \in Shares :
        (/\ call' = Called("append", <<share>>)
         /\ share.validity
         /\ hasValue(newest)
         /\ hasValue(oldest)
         /\ share.absheight > newest.absheight
         /\ share.absheight - oldest.absheight >= MAX_CHAIN_LENGTH
         /\ DOMAIN absheightIndexer # {})
            => \E h \in DOMAIN absheightIndexer : h \notin DOMAIN absheightIndexer'

\* C28: oldest is always a stored share at the lowest stored height, and
\* new tips keep evicting one height per call while the window is at
\* MAX_CHAIN_LENGTH or more
C28_EvictionAdvancesOldest == []OldestStored /\ [][EvictionGoesOn]_vars

\* append returns false for the share without storing it: it is invalid or
\* its hash is in the store already
Rejected(share) == ~share.validity \/ share.hash \in DOMAIN hashIndexer

\* C29: handling a shares message forwards to no node a share that the store
\* rejects (an invalid one, or one whose hash was stored before the message)
C29_RejectedSharesNotRelayed ==
    [][call'.op = "handleShares"
          => \A n \in Nodes : \A i \in 1..Len(sent'[n]) :
                 sent'[n][i].command = "shares"
                     => \A k \in 1..Len(sent'[n][i].shares) :
                            ~Rejected(sent'[n][i].shares[k])]_vars

\* the hole lies directly below the stored share: the height below it is
\* missing and a lower height is stored
HoleBelow(share) ==
    /\ share.hash \in DOMAIN hashIndexer
    /\ (share.absheight - 1) \notin DOMAIN absheightIndexer
    /\ \E a \in DOMAIN absheightIndexer : a < share.absheight - 1

\* the gaps that a checkGaps of the store as it is reports at the share
LaterGaps(share) ==
    SelectSeq(gapsOf(Chain), LAMBDA g : g.descendent = share.hash)

\* the keys handleGapsFound derives from a list of gaps
KeysOf(gaps) == {sha256Hex(gaps[i].descendent, gaps[i].length) : i \in 1..Len(gaps)}

\* handleGapsFound, given the gaps checkGaps reports at the share, writes a
\* request
AskedAgain(share) == handleGapsFound(PeerSide, LaterGaps(share)) # {PeerSide}

\* C30: when a share arrives as new tip above a hole, the gap append emits
\* and the gap a checkGaps of the unchanged store reports for that hole give
\* the same request key, and handleGapsFound writes no second sharereq
C30_GapDetectorsAgree ==
    [][\A share \in Shares :
          (/\ call' = Called("append", <<share>>)
           /\ hasValue(newest)
           /\ share.absheight > newest.absheight
           /\ HoleBelow(share)')
              => /\ Emitted(events', "GapsFound") # <<>>
                 /\ KeysOf(LaterGaps(share))'
                        = KeysOf(Emitted(events', "GapsFound")[1].gaps)
                 /\ ~AskedAgain(share)']_vars

\* the request keys of the gaps the store can hold
GapKeys == {sha256Hex(HashOf(h, 1), len) : h \in Heights, len \in 1..MaxHeight}

\* a checkGaps of the store as it is reports a gap of this key
GapInStore(key) ==
    /\ hasValue(newest)
    /\ \E i \in 1..Len(gapsOf(Chain)) :
           sha256Hex(gapsOf(Chain)[i].descendent, gapsOf(Chain)[i].length) = key

\* some connected peer holds an unanswered sharereq of this key
Requested(key) == \E n \in peers : CountOf(unanswered[n], key) > 0

\* the gap was requested, every peer that was asked has answered without
\* the gap being closed or has disconnected, and a peer is connected
Unserved(key) ==
    /\ GapInStore(key)
    /\ key \in pendingShareRequests
    /\ peers # {}
    /\ ~Requested(key)

\* C31: a gap that was requested and is held by no peer any more (the reply
\* was not ok, or the peer asked has disconnected) is requested again, unless
\* the gap leaves the store or no peer stays connected
C31_GapRequestedAgain ==
    \A key \in GapKeys :
        Unserved(key) ~> (Requested(key) \/ ~GapInStore(key) \/ peers = {})

\* newest is the first share of the list at its height, no stored height is
\* above it, and oldest is not above it
NewestOnTop ==
    hasValue(newest)
        => /\ newest.absheight \in DOMAIN absheightIndexer
           /\ Len(absheightIndexer[newest.absheight]) > 0
           /\ absheightIndexer[newest.absheight][1] = newest
           /\ \A h \in DOMAIN absheightIndexer : h <= newest.absheight
           /\ \A k \in DOMAIN hashIndexer : hashIndexer[k] <= newest.absheight
           /\ hasValue(oldest) => newest.absheight >= oldest.absheight

\* newest, once defined, stays defined and its height never decreases
NewestNeverLower ==
    hasValue(newest) => /\ hasValue(newest')
                        /\ newest'.absheight >= newest.absheight

\* C32: newest, when defined, is stored at index 0 of the list at its
\* height, no stored share is higher than newest, the height of newest never
\* decreases, and newest.absheight >= oldest.absheight when both are defined
C32_NewestOnTop == []NewestOnTop /\ [][NewestNeverLower]_vars

\* a second share has been appended at the height of newest, above oldest,
\* after an eviction
C32_Witness ==
    /\ call.op = "append"
    /\ hasValue(newest)
    /\ hasValue(oldest)
    /\ Len(call.args) = 1
    /\ call.args[1].validity
    /\ call.args[1].absheight = newest.absheight
    /\ call.args[1] # newest
    /\ Len(absheightIndexer[newest.absheight]) >= 2
    /\ oldest.absheight < newest.absheight
    /\ oldest.absheight \notin DOMAIN absheightIndexer

====
